---- MODULE Spec2Model ----
(***************************************************************************)
(* Model of ai-service/models/recommendation_model.py: the hybrid scoring  *)
(* and diversity-constrained selection of RecommendationModel, and of the  *)
(* part of ai-service/app.py that installs the model and serves it.        *)
(*                                                                         *)
(* Texts are sequences of tokens joined by single blanks; the empty token  *)
(* "" stands for an extra blank, "!!!" for three punctuation characters.   *)
(* Accented letters are written without the accent in token names (the     *)
(* code's regular expression keeps accented letters as word characters).   *)
(*                                                                         *)
(* Numbers are exact rationals over a common denominator:                  *)
(*   semantic similarity   s / 2          (s in -2 .. 2)                    *)
(*   base score            baseN / 200                                     *)
(*   boost                 boostN / 10                                     *)
(*   quality term          qualN / (5 * max complexity)                    *)
(*   price term            priceN / 15                                     *)
(*   catalog price         prix_jour / 2                                   *)
(* so all raw scores of one batch share one denominator and the batch is   *)
(* a vector of integer numerators plus one denominator.                    *)
(***************************************************************************)
EXTENDS Integers, Sequences, FiniteSets, TLC

VARIABLES
    is_initialized,   \* RecommendationModel.is_initialized
    nlp,              \* self.nlp is loaded (TRUE) or None (FALSE)
    argsort_ties,     \* order numpy's argsort leaves equal scores in (fixed per build)
    configs,          \* self.configs: the catalog, a sequence of rows
    request,          \* arguments and environment of the call being answered
    scoring,          \* what _calculate_enhanced_scores returned in that call
    response,         \* what get_recommendations returned
    batch,            \* inputs and outputs of the score combination (lines 504-512)
    recommendation_model,  \* app.py: the global recommendation_model
    http,             \* app.py: the answer of the endpoint called last
    rng,              \* position of numpy's global random generator in its stream
    threads,          \* the requests being served concurrently (app.run threaded=True)
    boosting,         \* the features and boosts of lines 476-492 in the call answered
    walk              \* the loop of lines 542-580: indices left, results, seen keys

\* the state of the service around the model object
appVars == <<recommendation_model, http, rng, threads>>

\* the locals of get_recommendations and _calculate_enhanced_scores that are
\* followed step by step
stepVars == <<boosting, walk>>

vars == <<is_initialized, nlp, argsort_ties, configs, request, scoring, response, batch,
          recommendation_model, http, rng, threads, boosting, walk>>

---------------------------------------------------------------------------
(* Bounds of the model *)

MaxCatalog == 2
MaxQueryLen == 2
MaxSelCatalog == 6
MaxBatch == 2
MaxThreads == 2
MaxRng == 4
MaxScoreSteps == 40
MaxFeatQueryLen == 3

---------------------------------------------------------------------------
(* Program constants *)

\* the length check off by one: len(user_query.strip()) < 2
MinQueryCharsOffByOne == 3 - 1

MinQueryChars == 3

\* the loop stops one result later: len(results) >= 6
MaxResultsOffByOne == 5 + 1

MaxResults == 5
MaxSimilar == 2
\* quality_threshold = 0.15 = ThresholdNum / ThresholdDen
ThresholdNum == 3
ThresholdDen == 20

None == "None"

---------------------------------------------------------------------------
(* Texts *)

Tokens == {"", "!!!", "ab", "interview", "studio", "eleve"}

\* number of characters of a token
CharLen(t) ==
    CASE t = "" -> 0
      [] t = "!!!" -> 3
      [] t = "ab" -> 2
      [] t = "interview" -> 9
      [] t = "studio" -> 6
      [] t = "eleve" -> 5
      [] t = "film" -> 4
      [] t = "slow" -> 4
      [] t = "budget" -> 6
      [] t = "mariage" -> 7
      [] t = "court-metrage" -> 13
      [] OTHER -> 7

\* the punctuation is left in the text
IsPunctNever(t) == FALSE

IsPunct(t) == t = "!!!"

RECURSIVE SumLen(_)
SumLen(toks) ==
    IF toks = <<>> THEN 0 ELSE CharLen(Head(toks)) + SumLen(Tail(toks))

\* characters of the text: the tokens and one blank between neighbours
TextLen(toks) == IF toks = <<>> THEN 0 ELSE SumLen(toks) + Len(toks) - 1

RECURSIVE DropLeadingBlank(_)
DropLeadingBlank(toks) ==
    IF toks = <<>> THEN <<>>
    ELSE IF Head(toks) = "" THEN DropLeadingBlank(Tail(toks))
    ELSE toks

RECURSIVE DropTrailingBlank(_)
DropTrailingBlank(toks) ==
    IF toks = <<>> THEN <<>>
    ELSE IF toks[Len(toks)] = "" THEN DropTrailingBlank(SubSeq(toks, 1, Len(toks) - 1))
    ELSE toks

\* str.strip()
Strip(toks) == DropTrailingBlank(DropLeadingBlank(toks))

\* self.SYNONYMS applied in dictionary order with \b...\b to one word. The
\* hyphen is not a word character, so 'court' -> 'court-métrage', then
\* 'métrage' -> 'court-métrage' and 'court-métrage' -> 'court-métrage' act
\* inside a word that holds a hyphen; 'film' comes after them in the table.
\* A text is normalized at most twice (lines 437 and 381).
Canon(w) ==
    CASE w = "eleve" -> "high"
      [] w = "faible" -> "low"
      [] w = "moyen" -> "medium"
      [] w = "entretien" -> "interview"
      [] w = "reportage" -> "documentaire"
      [] w = "court-metrage" -> "court-court-metrage-court-metrage"
      [] w = "court-court-metrage-court-metrage" ->
            "court-court-metrage-court-court-metrage-court-metrage-court-court-metrage-court-metrage"
      [] w = "film" -> "court-metrage"
      [] OTHER -> w

\* token.lemma_ of the words spaCy keeps (not stop words, not punctuation)
Lemma(w) == w

RECURSIVE CanonWords(_)
CanonWords(toks) ==
    IF toks = <<>> THEN <<>>
    ELSE IF Head(toks) = "" \/ IsPunct(Head(toks)) THEN CanonWords(Tail(toks))
    ELSE <<Canon(Head(toks))>> \o CanonWords(Tail(toks))

RECURSIVE Lemmas(_)
Lemmas(ws) == IF ws = <<>> THEN <<>> ELSE <<Lemma(Head(ws))>> \o Lemmas(Tail(ws))

\* _enhanced_preprocess_text with self.nlp = hasNlp; the result "" is <<>>
EnhancedPreprocessText(toks, hasNlp) ==
    IF Strip(toks) = <<>> THEN <<>>
    ELSE LET ws == CanonWords(Strip(toks))
         IN  IF hasNlp /\ ws # <<>> THEN ws \o Lemmas(ws) ELSE ws

WordSet(ws) == {ws[i] : i \in 1..Len(ws)}

---------------------------------------------------------------------------
(* Catalog *)

BudgetTier(b) ==
    CASE b = "low" -> 1
      [] b = "medium" -> 2
      [] b = "high" -> 3
      [] OTHER -> 2

\* a row of self.configs after _clean_and_enhance_data. prix_jour is the sum of
\* the prices read from the price file (line 214, 227-231), a float: it is kept
\* in halves, prix / 2
Row(t, b, l, cam, cx, prix) ==
    [type |-> t, budget |-> b, lieu |-> l, camera |-> cam,
     complexity_score |-> cx, prix_jour |-> prix, budget_tier |-> BudgetTier(b)]

RowPool ==
    { Row("interview", "high", "studio", "Sony FX6", 3, 1400),
      Row("interview", "low", "interieur", "Sony A6400", 1, 501),
      Row("pub", "medium", "studio", "Canon R6", 2, 800) }

\* rows of the larger catalogs the selection is exercised on: five different
\* combinations and a second equipment set for the first of them
SelPool ==
    { Row("interview", "high", "studio", "Sony FX6", 3, 1400),
      Row("interview", "high", "interieur", "Canon R6", 2, 1200),
      Row("interview", "low", "studio", "Sony A6400", 1, 500),
      Row("pub", "high", "studio", "Canon R6", 2, 1300),
      Row("clip", "medium", "exterieur", "Sony A6400", 1, 800),
      Row("interview", "high", "studio", "Canon R6", 2, 1200),
      Row("documentaire", "low", "interieur", "Sony A6400", 1, 400) }

SeqsUpTo(S, n) == UNION {[1..k -> S] : k \in 0..n}

ComboKey(row) == <<row.type, row.budget, row.lieu>>

ComboKeys(cfg) == {ComboKey(cfg[i]) : i \in 1..Len(cfg)}

TypeValues(cfg) == {cfg[i].type : i \in 1..Len(cfg)}

---------------------------------------------------------------------------
(* Feature extraction *)

\* budget names one of whose patterns (line 398-402) is a substring of the word
BudgetPatternsIn(w) ==
    CASE w = "low" -> {"low"}
      [] w = "slow" -> {"low"}
      [] w = "medium" -> {"medium"}
      [] w = "high" -> {"high"}
      [] OTHER -> {}

\* the one-word patterns of budget_patterns (lines 398-402), accents dropped
BudgetPatternWords(b) ==
    CASE b = "low" -> {"low", "faible", "petit", "economique", "serre"}
      [] b = "medium" -> {"medium", "moyen", "normal", "standard", "correct"}
      [] b = "high" -> {"high", "eleve", "grand", "cher", "premium", "luxe", "haut"}
      [] OTHER -> {}

\* the lieu a word stands for: the lieu itself or a synonym of it (line 412)
LieuOfWord(w) ==
    CASE w \in {"interieur", "int", "dedans", "indoor", "maison"} -> "interieur"
      [] w \in {"exterieur", "ext", "dehors", "outdoor", "nature"} -> "exterieur"
      [] w \in {"studio", "atelier", "salle"} -> "studio"
      [] OTHER -> None

\* words holding one of the substrings of the fallback rules (lines 426, 429)
IsWeddingWord(w) == w \in {"mariage", "wedding", "photo"}
IsInterviewWord(w) == w \in {"entretien", "reportage"}

BudgetOrder == <<"low", "medium", "high">>
LieuOrder == <<"interieur", "exterieur", "studio">>
TypeOrder == <<"interview", "pub", "clip", "documentaire", "court-metrage">>

\* first element of the sequence order that is in S, None when there is none
RECURSIVE FirstIn(_, _)
FirstIn(order, S) ==
    IF order = <<>> THEN None
    ELSE IF Head(order) \in S THEN Head(order)
    ELSE FirstIn(Tail(order), S)

\* _extract_enhanced_features(query): the query is preprocessed again here
ExtractEnhancedFeatures(toks, hasNlp, cfg) ==
    LET processed == EnhancedPreprocessText(toks, hasNlp)
        words == WordSet(processed)
        budget == FirstIn(BudgetOrder, UNION {BudgetPatternsIn(w) : w \in words})
        lieu == FirstIn(LieuOrder, {LieuOfWord(w) : w \in words} \ {None})
        exact == FirstIn(TypeOrder, TypeValues(cfg) \cap words)
        type == IF exact # None THEN exact
                ELSE IF \E w \in words : IsWeddingWord(w) THEN "pub"
                ELSE IF \E w \in words : IsInterviewWord(w) THEN "interview"
                ELSE None
        spec == (IF budget # None THEN 1 ELSE 0)
                + (IF lieu # None THEN 1 ELSE 0)
                + (IF exact # None THEN 2 ELSE IF type # None THEN 1 ELSE 0)
    IN  [budget |-> budget, lieu |-> lieu, type |-> type, specificity_score |-> spec]

NoFeatures == [budget |-> None, lieu |-> None, type |-> None, specificity_score |-> 0]

---------------------------------------------------------------------------
(* Scoring: _calculate_enhanced_scores *)

\* semantic similarities s / 2 the embedder and cosine_similarity can give
SemVals == {-1, 2}

\* numerators over 100 that np.random.uniform(0.1, 0.3) is drawn from here
RandNums == {10, 20}

RECURSIVE MaxOf(_)
MaxOf(S) ==
    LET x == CHOOSE y \in S : TRUE
    IN  IF S = {x} THEN x
        ELSE LET m == MaxOf(S \ {x}) IN IF x > m THEN x ELSE m

Abs(x) == IF x < 0 THEN -x ELSE x

\* keyword score of one row (lines 458-470) as intersection and union sizes
ConfigWords(row, hasNlp) ==
    WordSet(EnhancedPreprocessText(<<row.type, row.budget, row.lieu>>, hasNlp))

\* 200 * (0.4 * semantic + 0.3 * (jaccard + 0.1 * exact_matches)); the union
\* has at most 6 words, so 60 \div union is exact
BaseN(s, queryWords, configWords) ==
    LET inter == Cardinality(queryWords \cap configWords)
        union == Cardinality(queryWords \cup configWords)
        exact == Cardinality({w \in queryWords : w \in configWords})
        jaccard60 == IF union > 0 THEN (60 \div union) * inter ELSE 0
    IN  40 * s + jaccard60 + 6 * exact

\* the strength does not grow with the specificity
BoostNFixedStrength(row, extracted) ==
    LET strength == 3
    IN  10
        + (IF extracted.type # None /\ row.type = extracted.type THEN strength ELSE 0)
        + (IF extracted.budget # None /\ row.budget = extracted.budget THEN strength ELSE 0)
        + (IF extracted.lieu # None /\ row.lieu = extracted.lieu THEN strength ELSE 0)

\* 10 * boost (lines 477-492)
BoostN(row, extracted) ==
    LET strength == 3 + extracted.specificity_score
    IN  10
        + (IF extracted.type # None /\ row.type = extracted.type THEN strength ELSE 0)
        + (IF extracted.budget # None /\ row.budget = extracted.budget THEN strength ELSE 0)
        + (IF extracted.lieu # None /\ row.lieu = extracted.lieu THEN strength ELSE 0)

MaxComplexity(cfg) == MaxOf({cfg[i].complexity_score : i \in 1..Len(cfg)})

\* 5 * maxComplexity * (1 + 0.2 * quality_score) (line 495, 506)
QualN(row, maxComplexity) == 5 * maxComplexity + row.complexity_score

\* 15 * (0.8 + 0.2 * price_score) (lines 498-502, 506)
PriceN(row, extracted) ==
    IF extracted.budget # None
    THEN 15 - Abs(row.budget_tier - BudgetTier(extracted.budget))
    ELSE 15

\* line 506: the product, over the denominator 200 * 10 * 5 * maxComplexity * 15
CombineRaw(baseN, boostN, qualN, priceN) == baseN * boostN * qualN * priceN

RawDen(maxComplexity) == 150000 * maxComplexity

\* the raw scores are returned as they are
NormalizeScoresNever(rawNums, rawDen) == [nums |-> rawNums, den |-> rawDen]

\* lines 508-512: divide by the batch maximum when it is positive
NormalizeScores(rawNums, rawDen) ==
    LET top == MaxOf({rawNums[i] : i \in 1..Len(rawNums)})
    IN  IF top > 0 THEN [nums |-> rawNums, den |-> top]
        ELSE [nums |-> rawNums, den |-> rawDen]

\* the raw scores of the batch when nothing fails
RawScores(toks, hasNlp, cfg, sem) ==
    LET processed == EnhancedPreprocessText(toks, hasNlp)
        queryWords == WordSet(processed)
        extracted == ExtractEnhancedFeatures(processed, hasNlp, cfg)
        mc == MaxComplexity(cfg)
    IN  [i \in 1..Len(cfg) |->
            CombineRaw(BaseN(sem[i], queryWords, ConfigWords(cfg[i], hasNlp)),
                       BoostN(cfg[i], extracted),
                       QualN(cfg[i], mc),
                       PriceN(cfg[i], extracted))]

\* _calculate_enhanced_scores(query). env is what the call meets:
\*   env.sem         the cosine similarities of the query embedding
\*   env.embed_fails self.embedder.encode raises
\*   env.fail_row    the row whose scoring raises, 0 when none does
\* rnd holds the values np.random.uniform draws in the except branch.
CalculateEnhancedScores(toks, hasNlp, cfg, env, rnd) ==
    LET processed == EnhancedPreprocessText(toks, hasNlp)
    IN  IF processed = <<>>
        THEN [path |-> "empty", nums |-> [i \in 1..Len(cfg) |-> 0], den |-> 1]
        ELSE IF env.embed_fails \/ env.fail_row # 0 \/ Len(cfg) = 0
        THEN [path |-> "except", nums |-> rnd, den |-> 100]
        ELSE LET norm == NormalizeScores(RawScores(toks, hasNlp, cfg, env.sem),
                                         RawDen(MaxComplexity(cfg)))
             IN  [path |-> "scored", nums |-> norm.nums, den |-> norm.den]

---------------------------------------------------------------------------
(* Ranking and selection: get_recommendations lines 533-593 *)

\* similarities.argsort()[::-1]: indices by descending score. Equal scores
\* come out as the sort of the build leaves them: "reversed" is the stable
\* ascending order reversed (higher index first), "forward" lower index first.
\* the indices by ascending score
RECURSIVE ArgsortAsc(_, _, _)
ArgsortAsc(nums, left, ties) ==
    IF left = {} THEN <<>>
    ELSE LET least == CHOOSE i \in left :
                         \A j \in left :
                             \/ nums[i] < nums[j]
                             \/ /\ nums[i] = nums[j]
                                /\ IF ties = "reversed" THEN i >= j ELSE i <= j
         IN  <<least>> \o ArgsortAsc(nums, left \ {least}, ties)

RECURSIVE ArgsortDesc(_, _, _)
ArgsortDesc(nums, left, ties) ==
    IF left = {} THEN <<>>
    ELSE LET best == CHOOSE i \in left :
                        \A j \in left :
                            \/ nums[i] > nums[j]
                            \/ /\ nums[i] = nums[j]
                               /\ IF ties = "reversed" THEN i >= j ELSE i <= j
         IN  <<best>> \o ArgsortDesc(nums, left \ {best}, ties)

TopIndices(nums, ties) == ArgsortDesc(nums, 1..Len(nums), ties)

\* sum(a == b for a, b in zip(combo_key, seen))
SharedFields(k1, k2) == Cardinality({f \in 1..3 : k1[f] = k2[f]})

\* only the seen keys equal to the key are counted
SimilarCountEqualKeys(key, seen) == Cardinality({k \in seen : k = key})

\* line 552-553
SimilarCount(key, seen) == Cardinality({k \in seen : SharedFields(key, k) >= 2})

\* no score is below the threshold
BelowThresholdNever(n, d) == FALSE

\* similarities[idx] < quality_threshold
BelowThreshold(n, d) == ThresholdDen * n < ThresholdNum * d

\* round(num / den) to the nearest integer, halves to the even one
RoundHalfEven(num, den) ==
    LET q == num \div den
        r == num % den
    IN  IF 2 * r > den THEN q + 1
        ELSE IF 2 * r < den THEN q
        ELSE IF q % 2 = 0 THEN q ELSE q + 1

\* round(similarities[idx], 3), in thousandths
RoundedScore(n, d) == RoundHalfEven(1000 * n, d)

\* the comparisons of _calculate_confidence made with >=
CalculateConfidenceNonStrict(n, d) ==
    IF 5 * n >= 4 * d THEN "excellent"
    ELSE IF 5 * n >= 3 * d THEN "very_good"
    ELSE IF 5 * n >= 2 * d THEN "good"
    ELSE IF 5 * n >= d THEN "fair"
    ELSE "low"

\* _calculate_confidence
CalculateConfidence(n, d) ==
    IF 5 * n > 4 * d THEN "excellent"
    ELSE IF 5 * n > 3 * d THEN "very_good"
    ELSE IF 5 * n > 2 * d THEN "good"
    ELSE IF 5 * n > d THEN "fair"
    ELSE "low"

\* the rating with the fraction cut off instead of rounded
QualityRatingFloor(n, d) ==
    LET r == (5 * n + d) \div d IN IF r < 5 THEN r ELSE 5

\* min(5, round(similarities[idx] * 5 + 1))
QualityRating(n, d) ==
    LET r == RoundHalfEven(5 * n + d, d) IN IF r < 5 THEN r ELSE 5

\* int(x) of a non-negative amount given in halves: the fraction is cut off
IntOfHalves(h) == h \div 2

\* the result dictionary of lines 565-579
MakeResult(row, n, d, jours) ==
    [type |-> row.type, budget |-> row.budget, lieu |-> row.lieu,
     camera |-> row.camera,
     prix_jour |-> IntOfHalves(row.prix_jour),
     prix_total |-> IntOfHalves(row.prix_jour * jours),
     duree |-> jours,
     score |-> RoundedScore(n, d),
     confidence |-> CalculateConfidence(n, d),
     complexity_score |-> row.complexity_score,
     quality_rating |-> QualityRating(n, d)]

\* the loop of lines 542-580 over the indices still to visit
RECURSIVE SelectLoop(_, _, _, _, _, _)
SelectLoop(order, cfg, sc, jours, results, seen) ==
    IF order = <<>> \/ Len(results) >= MaxResults THEN results
    ELSE LET idx == Head(order)
             row == cfg[idx]
             key == ComboKey(row)
         IN  IF SimilarCount(key, seen) >= MaxSimilar
             THEN SelectLoop(Tail(order), cfg, sc, jours, results, seen)
             ELSE IF BelowThreshold(sc.nums[idx], sc.den)
             THEN SelectLoop(Tail(order), cfg, sc, jours, results, seen \cup {key})
             ELSE SelectLoop(Tail(order), cfg, sc, jours,
                             Append(results, MakeResult(row, sc.nums[idx], sc.den, jours)),
                             seen \cup {key})

SelectResults(cfg, sc, jours, ties) ==
    SelectLoop(TopIndices(sc.nums, ties), cfg, sc, jours, <<>>, {})

RECURSIVE SumScores(_)
SumScores(results) ==
    IF results = <<>> THEN 0 ELSE Head(results).score + SumScores(Tail(results))

\* the score of the first result in the place of the mean
ModelConfidenceOfFirst(results) ==
    IF results = <<>> THEN [num |-> 0, den |-> 1]
    ELSE [num |-> results[1].score, den |-> 1000]

\* np.mean of the rounded scores as a fraction of thousandths, 0 without results
ModelConfidence(results) ==
    IF results = <<>> THEN [num |-> 0, den |-> 1]
    ELSE [num |-> SumScores(results), den |-> 1000 * Len(results)]

\* a failure result that reports success
FailureAsSuccess(msg) ==
    [success |-> TRUE, message |-> msg, recommendations |-> <<>>,
     full |-> FALSE, extracted_features |-> NoFeatures,
     model_confidence |-> [num |-> 0, den |-> 1]]

\* the dictionaries get_recommendations returns
Failure(msg) ==
    [success |-> FALSE, message |-> msg, recommendations |-> <<>>,
     full |-> FALSE, extracted_features |-> NoFeatures,
     model_confidence |-> [num |-> 0, den |-> 1]]

\* lines 582-593 with success set unconditionally
FullResponseAlwaysSuccess(results, features) ==
    [success |-> TRUE,
     message |-> IF Len(results) > 0 THEN "Found high-quality recommendations"
                 ELSE "No close matches found",
     recommendations |-> results,
     full |-> TRUE, extracted_features |-> features,
     model_confidence |-> ModelConfidence(results)]

\* lines 582-593
FullResponse(results, features) ==
    [success |-> Len(results) > 0,
     message |-> IF Len(results) > 0 THEN "Found high-quality recommendations"
                 ELSE "No close matches found",
     recommendations |-> results,
     full |-> TRUE, extracted_features |-> features,
     model_confidence |-> ModelConfidence(results)]

---------------------------------------------------------------------------
(* The model object and its calls *)

Durations == {1, 7, 30}

NoneQuery == [none |-> TRUE, toks |-> <<>>]

Queries == {NoneQuery} \cup {[none |-> FALSE, toks |-> t] : t \in SeqsUpTo(Tokens, MaxQueryLen)}

Catalogs == SeqsUpTo(RowPool, MaxCatalog)

NoEnv == [sem |-> <<>>, embed_fails |-> FALSE, fail_row |-> 0]

NoRequest == [active |-> FALSE, query |-> NoneQuery, jours |-> 0, env |-> NoEnv]

NoScoring == [path |-> "none", nums |-> <<>>, den |-> 1]

NoResponse == Failure("")

NoBatch == [size |-> 0, raw |-> <<>>, boosted |-> 0, before |-> <<>>, after |-> <<>>]

\* rows with the same text have the same embedding, hence the same similarity
SemVectors(cfg) ==
    {s \in [1..Len(cfg) -> SemVals] :
        \A i, j \in 1..Len(cfg) : cfg[i] = cfg[j] => s[i] = s[j]}

\* is scoring reached, and does the query reach the embedder (lines 521-534, 438-444)
ReachesScoring(init, query) ==
    init /\ ~query.none /\ TextLen(Strip(query.toks)) >= MinQueryChars

ReachesEmbedder(init, query, hasNlp) ==
    ReachesScoring(init, query) /\ EnhancedPreprocessText(query.toks, hasNlp) # <<>>

\* what a call can meet, given how far it gets
Envs(init, query, hasNlp, cfg) ==
    IF ~ReachesEmbedder(init, query, hasNlp) THEN {NoEnv}
    ELSE {[sem |-> <<>>, embed_fails |-> TRUE, fail_row |-> 0]}
         \cup {[sem |-> s, embed_fails |-> FALSE, fail_row |-> r] :
                  s \in SemVectors(cfg), r \in 0..Len(cfg)}

RandVectors(cfg, env) ==
    IF env.embed_fails \/ env.fail_row # 0 \/ (env # NoEnv /\ Len(cfg) = 0)
    THEN [1..Len(cfg) -> RandNums]
    ELSE {[i \in 1..Len(cfg) |-> 0]}

\* the scores get_recommendations works with, NoScoring when it returns before
ScoresOf(init, query, hasNlp, cfg, env, rnd) ==
    IF ReachesScoring(init, query)
    THEN CalculateEnhancedScores(query.toks, hasNlp, cfg, env, rnd)
    ELSE NoScoring

\* get_recommendations(user_query, jours) as a function of what it reads
Recommend(init, query, jours, hasNlp, cfg, ties, sc) ==
    IF ~init THEN Failure("Enhanced model not initialized")
    ELSE IF query.none THEN Failure("'NoneType' object has no attribute 'strip'")
    ELSE IF TextLen(Strip(query.toks)) < MinQueryChars
    THEN Failure("Query too short. Please be more specific.")
    ELSE FullResponse(SelectResults(cfg, sc, jours, ties),
                      ExtractEnhancedFeatures(query.toks, hasNlp, cfg))

\* no endpoint has answered yet
NoHttp == [kind |-> "none", status |-> 0, success |-> FALSE, message |-> "",
           recommendations |-> <<>>, loaded |-> FALSE, initialized |-> FALSE]

\* a thread of the server that serves no request
IdleThread ==
    [pc |-> "idle", query |-> NoneQuery, jours |-> 0, env |-> NoEnv, seed |-> 0,
     scoring |-> NoScoring, response |-> NoResponse]

NoThreads == [t \in 1..MaxThreads |-> IdleThread]

\* no features have been extracted for boosting
NoBoosting == [extracted |-> NoFeatures, boosts |-> <<>>]

\* no loop over the ranked indices is under way
NoWalk == [pc |-> "none", order |-> <<>>, results |-> <<>>, seen |-> {}, log |-> <<>>]

\* the service around the model object is not started and no call is followed
AppIdle ==
    /\ recommendation_model = None
    /\ http = NoHttp
    /\ rng = 0
    /\ threads = NoThreads
    /\ boosting = NoBoosting
    /\ walk = NoWalk

Init ==
    /\ AppIdle
    /\ is_initialized = FALSE
    /\ nlp = FALSE
    /\ argsort_ties \in {"reversed", "forward"}
    /\ configs = <<>>
    /\ request = NoRequest
    /\ scoring = NoScoring
    /\ response = NoResponse
    /\ batch = NoBatch

\* initialize() runs to the end: returns True
InitializeOk ==
    /\ ~is_initialized
    /\ ~request.active
    /\ nlp' \in BOOLEAN
    /\ configs' \in Catalogs
    /\ is_initialized' = TRUE
    /\ UNCHANGED <<argsort_ties, request, scoring, response, batch>>
    /\ UNCHANGED appVars
    /\ UNCHANGED stepVars

\* initialize() catches an exception: returns False. The models or the data
\* loaded before the failing step stay in place.
InitializeFails ==
    /\ ~is_initialized
    /\ ~request.active
    /\ nlp' \in BOOLEAN
    /\ configs' \in {<<>>} \cup Catalogs
    /\ is_initialized' = FALSE
    /\ UNCHANGED <<argsort_ties, request, scoring, response, batch>>
    /\ UNCHANGED appVars
    /\ UNCHANGED stepVars

Answer(query, jours, env, rnd) ==
    LET sc == ScoresOf(is_initialized, query, nlp, configs, env, rnd)
    IN  /\ request' = [active |-> TRUE, query |-> query, jours |-> jours, env |-> env]
        /\ scoring' = sc
        /\ response' = Recommend(is_initialized, query, jours, nlp, configs, argsort_ties, sc)
        /\ UNCHANGED <<is_initialized, nlp, argsort_ties, configs, batch>>
        /\ UNCHANGED appVars
        /\ UNCHANGED stepVars

\* a caller calls get_recommendations
GetRecommendations ==
    /\ ~request.active
    /\ \E query \in Queries, jours \in Durations :
         \E env \in Envs(is_initialized, query, nlp, configs) :
           \E rnd \in RandVectors(configs, env) :
             Answer(query, jours, env, rnd)

\* the caller repeats the call: same arguments, same catalog, same environment
Retry ==
    /\ request.active
    /\ \E rnd \in RandVectors(configs, request.env) :
         Answer(request.query, request.jours, request.env, rnd)

\* the caller takes the response
Deliver ==
    /\ request.active
    /\ request' = NoRequest
    /\ scoring' = NoScoring
    /\ response' = NoResponse
    /\ UNCHANGED <<is_initialized, nlp, argsort_ties, configs, batch>>
    /\ UNCHANGED appVars
    /\ UNCHANGED stepVars

Next == InitializeOk \/ InitializeFails \/ GetRecommendations \/ Retry \/ Deliver

Spec == Init /\ [][Next]_vars

---------------------------------------------------------------------------
(* The selection on larger catalogs: lines 535-593 applied to a score vector *)

\* five rows with five different combinations, in catalog order
SelRows ==
    << Row("interview", "high", "studio", "Sony FX6", 3, 1400),
       Row("interview", "high", "interieur", "Canon R6", 2, 1200),
       Row("interview", "low", "studio", "Sony A6400", 1, 500),
       Row("pub", "high", "studio", "Canon R6", 2, 1300),
       Row("clip", "medium", "exterieur", "Sony A6400", 1, 800) >>

SelCatalogs ==
    {c \in [1..MaxSelCatalog -> SelPool] : \A i \in 1..Len(SelRows) : c[i] = SelRows[i]}

\* score vectors _calculate_enhanced_scores can return, in twentieths: the
\* batch maximum is 1.0, or nothing is positive, or all are random in [0.1, 0.3)
\* rows that are equal in every field get the same computed score
SameRowsSameScore(cfg, v) == \A i, j \in 1..Len(cfg) : cfg[i] = cfg[j] => v[i] = v[j]

SelScores(cfg) ==
    {[path |-> "scored", nums |-> v, den |-> 20] :
        v \in {w \in [1..Len(cfg) -> {2, 3, 10, 20}] :
                  (\E i \in 1..Len(cfg) : w[i] = 20) /\ SameRowsSameScore(cfg, w)}}
    \cup {[path |-> "scored", nums |-> v, den |-> 20] :
             v \in {w \in [1..Len(cfg) -> {-4, 0}] : SameRowsSameScore(cfg, w)}}
    \cup {[path |-> "except", nums |-> v, den |-> 20] : v \in [1..Len(cfg) -> {2, 3}]}

SelQuery == [none |-> FALSE, toks |-> <<"interview">>]

InitSelect ==
    /\ AppIdle
    /\ is_initialized = TRUE
    /\ nlp = FALSE
    /\ argsort_ties \in {"reversed", "forward"}
    /\ configs \in SelCatalogs
    /\ request = NoRequest
    /\ scoring = NoScoring
    /\ response = NoResponse
    /\ batch = NoBatch

\* get_recommendations from line 535 on, for the scores sc
RankAndSelect ==
    /\ ~request.active
    /\ \E sc \in SelScores(configs), jours \in Durations :
         /\ request' = [active |-> TRUE, query |-> SelQuery, jours |-> jours, env |-> NoEnv]
         /\ scoring' = sc
         /\ response' = Recommend(is_initialized, SelQuery, jours, nlp, configs,
                                  argsort_ties, sc)
    /\ UNCHANGED <<is_initialized, nlp, argsort_ties, configs, batch>>
    /\ UNCHANGED appVars
    /\ UNCHANGED stepVars

NextSelect == RankAndSelect \/ Deliver

SpecSelect == InitSelect /\ [][NextSelect]_vars

---------------------------------------------------------------------------
(* The loop of lines 542-580 one iteration at a time. walk.log keeps, for   *)
(* every index visited, the seen keys it met and what became of it.         *)

\* the body of the loop with the key added to the seen set on acceptance only
VisitStepAddOnAccept(w, cfg, sc, jours) ==
    LET idx == Head(w.order)
        key == ComboKey(cfg[idx])
        entry(outcome) == [idx |-> idx, seen |-> w.seen, outcome |-> outcome]
    IN  IF SimilarCount(key, w.seen) >= MaxSimilar
        THEN [w EXCEPT !.order = Tail(@), !.log = Append(@, entry("diversity"))]
        ELSE IF BelowThreshold(sc.nums[idx], sc.den)
        THEN [w EXCEPT !.order = Tail(@), !.log = Append(@, entry("quality"))]
        ELSE [w EXCEPT !.order = Tail(@), !.seen = @ \cup {key},
                       !.results = Append(@, MakeResult(cfg[idx], sc.nums[idx], sc.den, jours)),
                       !.log = Append(@, entry("accepted"))]

\* one iteration of the loop (lines 546-580) for the index at the head of w.order
VisitStep(w, cfg, sc, jours) ==
    LET idx == Head(w.order)
        key == ComboKey(cfg[idx])
        entry(outcome) == [idx |-> idx, seen |-> w.seen, outcome |-> outcome]
    IN  IF SimilarCount(key, w.seen) >= MaxSimilar
        THEN [w EXCEPT !.order = Tail(@), !.log = Append(@, entry("diversity"))]
        ELSE IF BelowThreshold(sc.nums[idx], sc.den)
        THEN [w EXCEPT !.order = Tail(@), !.seen = @ \cup {key},
                       !.log = Append(@, entry("quality"))]
        ELSE [w EXCEPT !.order = Tail(@), !.seen = @ \cup {key},
                       !.results = Append(@, MakeResult(cfg[idx], sc.nums[idx], sc.den, jours)),
                       !.log = Append(@, entry("accepted"))]

\* lines 533-540: the scores are ranked, results and seen_combinations are empty
StartWalk ==
    /\ ~request.active
    /\ walk.pc = "none"
    /\ \E sc \in SelScores(configs) :
         /\ request' = [active |-> TRUE, query |-> SelQuery, jours |-> 1, env |-> NoEnv]
         /\ scoring' = sc
         /\ walk' = [pc |-> "loop", order |-> TopIndices(sc.nums, argsort_ties),
                     results |-> <<>>, seen |-> {}, log |-> <<>>]
    /\ UNCHANGED <<is_initialized, nlp, argsort_ties, configs, response, batch, boosting>>
    /\ UNCHANGED appVars

\* the loop takes the next index: fewer than 5 results so far
VisitNext ==
    /\ walk.pc = "loop"
    /\ walk.order # <<>>
    /\ Len(walk.results) < MaxResults
    /\ walk' = VisitStep(walk, configs, scoring, request.jours)
    /\ UNCHANGED <<is_initialized, nlp, argsort_ties, configs, request, scoring, response,
                   batch, boosting>>
    /\ UNCHANGED appVars

\* the loop is left (line 543-544 or no index left) and the response is built
EndWalk ==
    /\ walk.pc = "loop"
    /\ (walk.order = <<>> \/ Len(walk.results) >= MaxResults)
    /\ walk' = [walk EXCEPT !.pc = "done"]
    /\ response' = FullResponse(walk.results,
                                ExtractEnhancedFeatures(request.query.toks, nlp, configs))
    /\ UNCHANGED <<is_initialized, nlp, argsort_ties, configs, request, scoring, batch,
                   boosting>>
    /\ UNCHANGED appVars

\* the caller takes the response
ReturnWalk ==
    /\ walk.pc = "done"
    /\ walk' = NoWalk
    /\ request' = NoRequest
    /\ scoring' = NoScoring
    /\ response' = NoResponse
    /\ UNCHANGED <<is_initialized, nlp, argsort_ties, configs, batch, boosting>>
    /\ UNCHANGED appVars

NextWalk == StartWalk \/ VisitNext \/ EndWalk \/ ReturnWalk

SpecWalk == InitSelect /\ [][NextWalk]_vars

\* the loop taken step by step returns what SelectResults computes
WalkAgreesWithSelectResults ==
    walk.pc = "done" =>
        response = Recommend(is_initialized, request.query, request.jours, nlp, configs,
                             argsort_ties, scoring)

---------------------------------------------------------------------------
(* Feature extraction and boosting: get_recommendations on queries that name *)
(* types, places and budgets. boosting keeps the features and the boosts of  *)
(* lines 476-492 of the call.                                                *)

\* words of the queries; 'budget' itself is left out, it is no synonym and
\* holds no budget pattern
FeatTokens == {"interview", "studio", "eleve", "film", "slow", "court-metrage", "mariage"}

FeatQueries == {[none |-> FALSE, toks |-> t] : t \in SeqsUpTo(FeatTokens, MaxFeatQueryLen)}

FeatPool ==
    { Row("interview", "high", "studio", "Sony FX6", 3, 1400),
      Row("court-metrage", "low", "exterieur", "Sony A6400", 1, 501) }

FeatCatalogs == SeqsUpTo(FeatPool, MaxCatalog)

\* the embedder raises, or it gives every row the same similarity
FeatEnvs(init, query, hasNlp, cfg) ==
    {env \in Envs(init, query, hasNlp, cfg) :
        /\ env.fail_row = 0
        /\ \A i, j \in 1..Len(env.sem) : env.sem[i] = env.sem[j]}

\* extracted and boosts of lines 476-492, NoBoosting when line 476 is not reached
BoostingOf(query, hasNlp, cfg, sc) ==
    IF sc.path # "scored" THEN NoBoosting
    ELSE LET extracted == ExtractEnhancedFeatures(
                              EnhancedPreprocessText(query.toks, hasNlp), hasNlp, cfg)
         IN  [extracted |-> extracted,
              boosts |-> [i \in 1..Len(cfg) |-> BoostN(cfg[i], extracted)]]

InitFeatures ==
    /\ AppIdle
    /\ is_initialized = TRUE
    /\ nlp \in BOOLEAN
    /\ argsort_ties \in {"reversed", "forward"}
    /\ configs \in FeatCatalogs
    /\ request = NoRequest
    /\ scoring = NoScoring
    /\ response = NoResponse
    /\ batch = NoBatch

\* a caller calls get_recommendations(query, 1)
ExtractAndBoost ==
    /\ ~request.active
    /\ \E query \in FeatQueries :
         \E env \in FeatEnvs(is_initialized, query, nlp, configs) :
           \E rnd \in RandVectors(configs, env) :
             LET sc == ScoresOf(is_initialized, query, nlp, configs, env, rnd)
             IN  /\ request' = [active |-> TRUE, query |-> query, jours |-> 1, env |-> env]
                 /\ scoring' = sc
                 /\ boosting' = BoostingOf(query, nlp, configs, sc)
                 /\ response' = Recommend(is_initialized, query, 1, nlp, configs,
                                          argsort_ties, sc)
    /\ UNCHANGED <<is_initialized, nlp, argsort_ties, configs, batch, walk>>
    /\ UNCHANGED appVars

\* the caller takes the response
ReturnFeatures ==
    /\ request.active
    /\ request' = NoRequest
    /\ scoring' = NoScoring
    /\ boosting' = NoBoosting
    /\ response' = NoResponse
    /\ UNCHANGED <<is_initialized, nlp, argsort_ties, configs, batch, walk>>
    /\ UNCHANGED appVars

NextFeatures == ExtractAndBoost \/ ReturnFeatures

SpecFeatures == InitFeatures /\ [][NextFeatures]_vars

---------------------------------------------------------------------------
(* The score combination alone: lines 504-512 on a batch of candidates *)

\* per-candidate inputs: semantic s / 2, keyword score lexN / 200 * (1 / 0.3),
\* boost boostN / 10, quality and price terms as in QualN and PriceN
CandInputs ==
    [s : SemVals, lexN : {0, 26}, boostN : {10, 13}, qualN : {11, 12}, priceN : {15}]

BoostSteps == {3, 7}

CandRaw(c) == CombineRaw(40 * c.s + c.lexN, c.boostN, c.qualN, c.priceN)

BatchRaw(inputs) == [i \in 1..Len(inputs) |-> CandRaw(inputs[i])]

\* position of candidate i in the descending ranking
PositionOf(i, order) == CHOOSE p \in 1..Len(order) : order[p] = i

\* the batch is combined, then again with the boost of one candidate raised
CombineBatch ==
    /\ batch.size = 0
    /\ \E n \in 1..MaxBatch :
         \E inputs \in [1..n -> CandInputs], i \in 1..n, step \in BoostSteps :
           LET raised == [inputs EXCEPT ![i].boostN = @ + step]
           IN  batch' = [size |-> n, raw |-> BatchRaw(inputs), boosted |-> i,
                         before |-> NormalizeScores(BatchRaw(inputs), RawDen(2)).nums,
                         after |-> NormalizeScores(BatchRaw(raised), RawDen(2)).nums]
    /\ UNCHANGED <<is_initialized, nlp, argsort_ties, configs, request, scoring, response>>
    /\ UNCHANGED appVars
    /\ UNCHANGED stepVars

ClearBatch ==
    /\ batch.size # 0
    /\ batch' = NoBatch
    /\ UNCHANGED <<is_initialized, nlp, argsort_ties, configs, request, scoring, response>>
    /\ UNCHANGED appVars
    /\ UNCHANGED stepVars

NextScore == CombineBatch \/ ClearBatch

SpecScore == Init /\ [][NextScore]_vars

---------------------------------------------------------------------------
(* The result dictionaries on a fine grid of scores: lines 535-593 applied  *)
(* to catalogs of two rows whose first row has the batch maximum 1.0 and    *)
(* whose second row has any score n / MaxScoreSteps                         *)

GridCatalogs == [1..2 -> RowPool]

\* the lowest score of the grid is -0.2
GridScores ==
    {[path |-> "scored", nums |-> <<MaxScoreSteps, n>>, den |-> MaxScoreSteps] :
        n \in (0 - (MaxScoreSteps \div 5))..MaxScoreSteps}

InitResult ==
    /\ AppIdle
    /\ is_initialized = TRUE
    /\ nlp = FALSE
    /\ argsort_ties \in {"reversed", "forward"}
    /\ configs \in GridCatalogs
    /\ request = NoRequest
    /\ scoring = NoScoring
    /\ response = NoResponse
    /\ batch = NoBatch

\* get_recommendations from line 535 on, for the scores sc of the grid
RankOnGrid ==
    /\ ~request.active
    /\ \E sc \in GridScores, jours \in Durations :
         /\ request' = [active |-> TRUE, query |-> SelQuery, jours |-> jours, env |-> NoEnv]
         /\ scoring' = sc
         /\ response' = Recommend(is_initialized, SelQuery, jours, nlp, configs,
                                  argsort_ties, sc)
    /\ UNCHANGED <<is_initialized, nlp, argsort_ties, configs, batch>>
    /\ UNCHANGED appVars
    /\ UNCHANGED stepVars

NextResult == RankOnGrid \/ Deliver

SpecResult == InitResult /\ [][NextResult]_vars

---------------------------------------------------------------------------
(* The service: app.py *)

Enhanced == "RecommendationModel"
Fallback == "FallbackRecommendationModel"

\* only the enhanced model counts as initialized
ModelIsInitializedEnhancedOnly(model, init) == model = Enhanced /\ init

\* getattr(recommendation_model, 'is_initialized', False): the fallback model
\* sets the attribute to True in its constructor
ModelIsInitialized(model, init) ==
    IF model = Fallback THEN TRUE
    ELSE IF model = Enhanced THEN init
    ELSE FALSE

AppTokens == {"", "ab", "interview", "mariage"}

\* the 'query' of the posted JSON: missing, or a text
AppQueries ==
    {NoneQuery} \cup {[none |-> FALSE, toks |-> t] : t \in SeqsUpTo(AppTokens, MaxQueryLen)}

\* any(word in query_lower for word in [...]): one of the words is a substring
FallbackIsWedding(toks) ==
    \E i \in 1..Len(toks) : toks[i] \in {"mariage", "wedding", "outdoor", "exterieur", "photo"}

\* FallbackRecommendationModel.get_recommendations(query, days)
FallbackRecommendations(toks, days) ==
    IF FallbackIsWedding(toks)
    THEN << [type |-> "wedding", budget |-> "high", lieu |-> "exterieur",
             camera |-> "Canon R6", prix_jour |-> 450, prix_total |-> 450 * days,
             duree |-> days, score |-> 850, confidence |-> "very_good"] >>
    ELSE << [type |-> "general", budget |-> "medium", lieu |-> "interieur",
             camera |-> "Canon EOS R", prix_jour |-> 320, prix_total |-> 320 * days,
             duree |-> days, score |-> 700, confidence |-> "relevant"] >>

FallbackResponse(toks, days) ==
    [success |-> TRUE, message |-> "Found recommendations",
     recommendations |-> FallbackRecommendations(toks, days),
     full |-> FALSE, extracted_features |-> NoFeatures,
     model_confidence |-> [num |-> 0, den |-> 1]]

\* formatted_rec of recommend_equipment
FormatRec(rec) ==
    [name |-> rec.camera, category |-> rec.type, pricePerDay |-> rec.prix_jour,
     confidence |-> rec.confidence]

FormatRecs(recs) == [i \in 1..Len(recs) |-> FormatRec(recs[i])]

\* the answers of /api/ai/recommend-equipment
HttpAnswer(status, success, message, recs) ==
    [kind |-> "recommend", status |-> status, success |-> success, message |-> message,
     recommendations |-> recs, loaded |-> FALSE, initialized |-> FALSE]

\* the answer of /health
HealthAnswer(model, init) ==
    [kind |-> "health", status |-> 200, success |-> TRUE, message |-> "OK",
     recommendations |-> <<>>, loaded |-> model # None,
     initialized |-> ModelIsInitialized(model, init)]

\* the query reaches recommendation_model.get_recommendations
AppReachesModel(model, query) ==
    /\ ~query.none
    /\ TextLen(Strip(query.toks)) >= MinQueryChars
    /\ model # None

\* recommend_equipment once the model has answered with res
AnswerOf(res) ==
    IF ~res.success THEN HttpAnswer(400, FALSE, res.message, <<>>)
    ELSE HttpAnswer(200, TRUE, res.message, FormatRecs(res.recommendations))

\* initialize_models(): RecommendationModel().initialize() returns True
InitializeModelsOk ==
    /\ recommendation_model = None
    /\ http.kind = "none"
    /\ recommendation_model' = Enhanced
    /\ is_initialized' = TRUE
    /\ nlp' \in BOOLEAN
    /\ configs' \in Catalogs
    /\ UNCHANGED <<argsort_ties, request, scoring, response, batch, http, rng, threads>>
    /\ UNCHANGED stepVars

\* initialize_models(): the import or initialize() fails; the failure is logged
\* and the fallback model takes the place of the enhanced one
InitializeModelsFallback ==
    /\ recommendation_model = None
    /\ http.kind = "none"
    /\ recommendation_model' = Fallback
    /\ is_initialized' = FALSE
    /\ nlp' \in BOOLEAN
    /\ configs' \in {<<>>} \cup Catalogs
    /\ UNCHANGED <<argsort_ties, request, scoring, response, batch, http, rng, threads>>
    /\ UNCHANGED stepVars

\* GET /health
HealthCheck ==
    /\ http.kind = "none"
    /\ http' = HealthAnswer(recommendation_model, is_initialized)
    /\ UNCHANGED <<is_initialized, nlp, argsort_ties, configs, request, scoring,
                   response, batch, recommendation_model, rng, threads>>
    /\ UNCHANGED stepVars

\* POST /api/ai/recommend-equipment with the body {query, days}
RecommendEquipment ==
    /\ http.kind = "none"
    /\ \E query \in AppQueries, days \in Durations :
         LET stripped == [none |-> query.none, toks |-> Strip(query.toks)]
             enhanced == recommendation_model = Enhanced /\ AppReachesModel(Enhanced, query)
         IN  \E env \in Envs(enhanced /\ is_initialized, stripped, nlp, configs) :
               \E rnd \in RandVectors(configs, env) :
                 LET sc == IF enhanced
                           THEN ScoresOf(is_initialized, stripped, nlp, configs, env, rnd)
                           ELSE NoScoring
                     res == IF ~AppReachesModel(recommendation_model, query) THEN NoResponse
                            ELSE IF recommendation_model = Fallback
                            THEN FallbackResponse(stripped.toks, days)
                            ELSE Recommend(is_initialized, stripped, days, nlp, configs,
                                           argsort_ties, sc)
                 IN  /\ request' = [active |-> TRUE, query |-> query, jours |-> days,
                                    env |-> env]
                     /\ scoring' = sc
                     /\ response' = res
                     /\ http' =
                          IF query.none \/ TextLen(query.toks) = 0
                          THEN HttpAnswer(400, FALSE, "Query is required", <<>>)
                          ELSE IF TextLen(stripped.toks) < MinQueryChars
                          THEN HttpAnswer(400, FALSE,
                                          "Query must be at least 3 characters long", <<>>)
                          ELSE IF recommendation_model = None
                          THEN HttpAnswer(503, FALSE, "Recommendation model not available",
                                          <<>>)
                          ELSE AnswerOf(res)
    /\ UNCHANGED <<is_initialized, nlp, argsort_ties, configs, batch,
                   recommendation_model, rng, threads>>
    /\ UNCHANGED stepVars

\* the answer has been sent
Reply ==
    /\ http.kind # "none"
    /\ http' = NoHttp
    /\ request' = NoRequest
    /\ scoring' = NoScoring
    /\ response' = NoResponse
    /\ UNCHANGED <<is_initialized, nlp, argsort_ties, configs, batch,
                   recommendation_model, rng, threads>>
    /\ UNCHANGED stepVars

NextApp ==
    InitializeModelsOk \/ InitializeModelsFallback \/ HealthCheck \/ RecommendEquipment
        \/ Reply

SpecApp == Init /\ [][NextApp]_vars

---------------------------------------------------------------------------
(* Concurrent requests: app.run(threaded=True) serves each request in a    *)
(* thread of its own; the threads share the model object and numpy's       *)
(* global random generator.                                                *)

\* the value the generator yields at position k of its stream, over 100
RandAt(k) == IF k % 2 = 0 THEN 10 ELSE 20

\* np.random.uniform(0.1, 0.3, n) with the generator at position k
DrawFrom(k, n) == [i \in 1..n |-> RandAt(k + i - 1)]

\* the call ends in the except branch of _calculate_enhanced_scores (line 516)
DrawsRandom(cfg, env) ==
    env.embed_fails \/ env.fail_row # 0 \/ (env # NoEnv /\ Len(cfg) = 0)

ConcQueries ==
    {[none |-> FALSE, toks |-> <<"interview">>], [none |-> FALSE, toks |-> <<"ab">>]}

ConcCatalogs == {c \in Catalogs : Len(c) >= 1}

InitConc ==
    /\ is_initialized = TRUE
    /\ nlp = FALSE
    /\ argsort_ties \in {"reversed", "forward"}
    /\ configs \in ConcCatalogs
    /\ request = NoRequest
    /\ scoring = NoScoring
    /\ response = NoResponse
    /\ batch = NoBatch
    /\ recommendation_model = Enhanced
    /\ http = NoHttp
    /\ rng = 0
    /\ threads = NoThreads
    /\ boosting = NoBoosting
    /\ walk = NoWalk

ModelUnchanged ==
    UNCHANGED <<is_initialized, nlp, argsort_ties, configs, request, scoring, response,
                batch, recommendation_model, http, boosting, walk>>

\* thread t enters get_recommendations
ThreadCall(t) ==
    /\ threads[t].pc = "idle"
    /\ \E query \in ConcQueries :
         \E env \in Envs(is_initialized, query, nlp, configs) :
           threads' = [threads EXCEPT ![t] =
                          [pc |-> "called", query |-> query, jours |-> 1, env |-> env,
                           seed |-> rng, scoring |-> NoScoring, response |-> NoResponse]]
    /\ UNCHANGED rng
    /\ ModelUnchanged

\* thread t passes the checks of lines 521-531 and runs _calculate_enhanced_scores;
\* the except branch draws from the shared generator and moves it on
ThreadScore(t) ==
    LET th == threads[t]
        draws == ReachesScoring(is_initialized, th.query) /\ DrawsRandom(configs, th.env)
    IN  /\ th.pc = "called"
        /\ threads' = [threads EXCEPT
                          ![t].pc = "scored",
                          ![t].scoring = ScoresOf(is_initialized, th.query, nlp, configs,
                                                  th.env, DrawFrom(rng, Len(configs)))]
        /\ rng' = IF draws THEN (rng + Len(configs)) % MaxRng ELSE rng
        /\ ModelUnchanged

\* thread t ranks, selects and builds the response (lines 535-593)
ThreadSelect(t) ==
    LET th == threads[t]
    IN  /\ th.pc = "scored"
        /\ threads' = [threads EXCEPT
                          ![t].pc = "done",
                          ![t].response = Recommend(is_initialized, th.query, th.jours, nlp,
                                                    configs, argsort_ties, th.scoring)]
        /\ UNCHANGED rng
        /\ ModelUnchanged

\* the response of thread t is sent
ThreadReturn(t) ==
    /\ threads[t].pc = "done"
    /\ threads' = [threads EXCEPT ![t] = IdleThread]
    /\ UNCHANGED rng
    /\ ModelUnchanged

NextConc ==
    \E t \in 1..MaxThreads :
        ThreadCall(t) \/ ThreadScore(t) \/ ThreadSelect(t) \/ ThreadReturn(t)

SpecConc == InitConc /\ [][NextConc]_vars

\* what the call of thread th returns when no other request runs meanwhile
AloneResponse(th) ==
    Recommend(is_initialized, th.query, th.jours, nlp, configs, argsort_ties,
              ScoresOf(is_initialized, th.query, nlp, configs, th.env,
                       DrawFrom(th.seed, Len(configs))))

---------------------------------------------------------------------------
(* Claims *)

Recs == response.recommendations

Answered == request.active

\* the call got as far as line 534 and no score is at or above the threshold
NothingClears ==
    /\ Answered
    /\ scoring.path # "none"
    /\ \A i \in 1..Len(scoring.nums) : BelowThreshold(scoring.nums[i], scoring.den)

\* C1: with at least 5 distinct (type, budget, lieu) combinations in the
\* catalog, no two returned recommendations have the same combination.
C1_NoTwoEqualKeys ==
    (Answered /\ Cardinality(ComboKeys(configs)) >= 5) =>
        \A i, j \in 1..Len(Recs) : i # j => ComboKey(Recs[i]) # ComboKey(Recs[j])

\* C2: with at least 5 distinct combinations in the catalog, no accepted
\* recommendation is followed by more than 2 recommendations sharing at least
\* 2 of the 3 key fields with it.
C2_AtMostTwoSimilar ==
    (Answered /\ Cardinality(ComboKeys(configs)) >= 5) =>
        \A j \in 1..Len(Recs) :
            Cardinality({i \in (j + 1)..Len(Recs) :
                            SharedFields(ComboKey(Recs[i]), ComboKey(Recs[j])) >= 2}) <= 2

\* C3: every score _calculate_enhanced_scores returns lies in [0, 1].
C3_ScoresInUnitInterval ==
    (Answered /\ scoring.path # "none") =>
        \A i \in 1..Len(scoring.nums) : 0 <= scoring.nums[i] /\ scoring.nums[i] <= scoring.den

\* C4: when the raw scores of a batch are not all 0, after normalization some
\* candidate has score exactly 1.0 and none has more; when the batch maximum
\* is 0 the scores are left as they are.
C4_BatchMaxIsOne ==
    (Answered /\ scoring.path = "scored" /\ Len(scoring.nums) > 0) =>
        LET nums == scoring.nums
            top == MaxOf({nums[i] : i \in 1..Len(nums)})
        IN  /\ (\E i \in 1..Len(nums) : nums[i] # 0) =>
                  /\ \E i \in 1..Len(nums) : nums[i] = scoring.den
                  /\ \A i \in 1..Len(nums) : nums[i] <= scoring.den
            /\ top = 0 => scoring.den = RawDen(MaxComplexity(configs))

\* C5: a call repeated with the same query and duration on the same model,
\* catalog and environment returns the same response.
C5_SameCallSameResponse ==
    [][(request.active /\ request' = request /\ configs' = configs
          /\ is_initialized' = is_initialized /\ nlp' = nlp)
       => response' = response]_vars

\* C6: raising the boost of one candidate, all else fixed, never puts it behind
\* a candidate it was ranked ahead of.
C6_BoostNeverLowersRank ==
    batch.size # 0 =>
        LET was == TopIndices(batch.before, argsort_ties)
            is == TopIndices(batch.after, argsort_ties)
            b == batch.boosted
        IN  \A j \in 1..batch.size :
                (j # b /\ PositionOf(b, was) < PositionOf(j, was))
                    => PositionOf(b, is) < PositionOf(j, is)

C8_EmbedderFailureFailsRequest ==
    (Answered /\ request.env.embed_fails) => (~response.success /\ Recs = <<>>)

\* C9: when scoring one row fails, that row gets score 0 and every other row
\* keeps the score it has without the failure.
C9_RowFailureIsIsolated ==
    (Answered /\ request.env.fail_row # 0) =>
        LET clean == CalculateEnhancedScores(request.query.toks, nlp, configs,
                        [request.env EXCEPT !.fail_row = 0], scoring.nums)
        IN  \A i \in 1..Len(configs) :
                IF i = request.env.fail_row THEN scoring.nums[i] = 0
                ELSE scoring.nums[i] * clean.den = clean.nums[i] * scoring.den

\* the query is missing or has fewer than 3 characters after trimming
ShortOrMissing ==
    /\ Answered
    /\ (request.query.none \/ TextLen(Strip(request.query.toks)) < 3)

\* C10 as stated: a query shorter than 3 characters after trimming gets a
\* failure with the 'too short' message, no recommendations and no scoring;
\* a missing query gets a failure with no recommendations and no scoring.
C10_ShortQueryIsTooShortFailure ==
    ShortOrMissing =>
        /\ ~response.success
        /\ Recs = <<>>
        /\ scoring = NoScoring
        /\ ~request.query.none =>
              response.message = "Query too short. Please be more specific."

\* C10 as amended: the same, with the 'too short' message on an initialized
\* model; on a model that is not initialized the failure carries the 'not
\* initialized' message instead.
C10_ShortQueryFails ==
    ShortOrMissing =>
        /\ ~response.success
        /\ Recs = <<>>
        /\ scoring = NoScoring
        /\ ~response.full
        /\ (~request.query.none /\ is_initialized) =>
              response.message = "Query too short. Please be more specific."
        /\ ~is_initialized => response.message = "Enhanced model not initialized"

C10_Witness ==
    /\ ShortOrMissing
    /\ is_initialized
    /\ request.query.toks = <<"ab", "">>
    /\ response.message = "Query too short. Please be more specific."

\* the query has at least 3 characters after trimming, all of them punctuation
\* or blanks, and the model is initialized
PunctuationOnly ==
    /\ Answered
    /\ is_initialized
    /\ ~request.query.none
    /\ TextLen(Strip(request.query.toks)) >= 3
    /\ \A i \in 1..Len(request.query.toks) : request.query.toks[i] \in {"", "!!!"}

\* C11 as stated: a query of at least 3 characters whose normalized text is
\* empty gets the 'query too short' failure and no scoring takes place.
C11_EmptyTextIsTooShortFailure ==
    PunctuationOnly =>
        /\ ~response.success
        /\ response.message = "Query too short. Please be more specific."
        /\ scoring = NoScoring

\* C11 as amended: such a query passes the length check; scoring is called and
\* returns a zero for every row without reaching the embedder, nothing clears
\* the threshold and the response is the 'no close matches' failure.
C11_EmptyTextFindsNoMatch ==
    PunctuationOnly =>
        /\ ~response.success
        /\ Recs = <<>>
        /\ response.message = "No close matches found"
        /\ scoring.path = "empty"
        /\ \A i \in 1..Len(scoring.nums) : scoring.nums[i] = 0
        /\ Len(scoring.nums) = Len(configs)
        /\ request.env = NoEnv

C11_Witness ==
    /\ PunctuationOnly
    /\ request.query.toks = <<"!!!">>
    /\ Len(configs) = 2
    /\ scoring.path = "empty"
    /\ response.message = "No close matches found"

\* initialize_models() ran and the enhanced model failed to initialize
InitFailed == recommendation_model = Fallback

\* C12 as stated: after a failed initialization the health state never reports
\* the recommendation model as initialized.
C12_FailedInitIsNotReady ==
    (InitFailed /\ http.kind = "health") => ~http.initialized

\* C12 as amended: after a failed initialization RecommendationModel's own
\* is_initialized flag stays false, but initialize_models installs the fallback
\* model: the health state reports the recommendation model as loaded and
\* initialized, and qualifying requests are answered by the fallback model.
C12_FailedInitFallsBack ==
    InitFailed =>
        /\ ~is_initialized
        /\ http.kind = "health" => (http.status = 200 /\ http.loaded /\ http.initialized)
        /\ (http.kind = "recommend" /\ AppReachesModel(Fallback, request.query)) =>
              /\ http.status = 200
              /\ response = FallbackResponse(Strip(request.query.toks), request.jours)
              /\ scoring = NoScoring

C12_Witness ==
    /\ InitFailed
    /\ ~is_initialized
    /\ http.kind = "health"
    /\ http.initialized

ConfidenceLabels == {"low", "fair", "good", "very_good", "excellent"}

\* C17: every recommendation the service returns, from the full model or from
\* the fallback model, carries one of the five confidence labels.
C17_LabelIsOneOfFive ==
    /\ \A i \in 1..Len(response.recommendations) :
          response.recommendations[i].confidence \in ConfidenceLabels
    /\ \A i \in 1..Len(http.recommendations) :
          http.recommendations[i].confidence \in ConfidenceLabels

\* C13: whatever other requests run at the same time, a request returns what
\* it returns when it runs alone.
C13_ConcurrentRequestsAsAlone ==
    \A t \in 1..MaxThreads :
        threads[t].pc = "done" => threads[t].response = AloneResponse(threads[t])

\* a call with a query of at least 3 characters on a catalog of one entry
OneEntry ==
    /\ Answered
    /\ is_initialized
    /\ Len(configs) = 1
    /\ ~request.query.none
    /\ TextLen(Strip(request.query.toks)) >= 3

\* model_confidence is the score (in thousandths) of the recommendation rec
ConfidenceIsScoreOf(rec) ==
    response.model_confidence.num * 1000 = rec.score * response.model_confidence.den

C15_TotalIsDailyTimesDays ==
    \A i \in 1..Len(Recs) : Recs[i].prix_total = Recs[i].prix_jour * Recs[i].duree

\* On the grid the scores are in descending catalog order, so the i-th
\* recommendation is the one with the i-th score.
\* C16: the label of a recommendation follows from its final score n / d by
\* strict comparisons: > 0.8 excellent, else > 0.6 very_good, else > 0.4 good,
\* else > 0.2 fair, else low.
C16_LabelByStrictThresholds ==
    \A i \in 1..Len(Recs) :
        LET n == scoring.nums[i]
            d == scoring.den
            c == Recs[i].confidence
        IN  /\ c = "excellent" <=> 10 * n > 8 * d
            /\ c = "very_good" <=> (10 * n <= 8 * d /\ 10 * n > 6 * d)
            /\ c = "good" <=> (10 * n <= 6 * d /\ 10 * n > 4 * d)
            /\ c = "fair" <=> (10 * n <= 4 * d /\ 10 * n > 2 * d)
            /\ c = "low" <=> 10 * n <= 2 * d

\* a recommendation with a score of exactly 0.8 labelled very_good
C16_Witness ==
    /\ Len(Recs) = 2
    /\ 10 * scoring.nums[2] = 8 * scoring.den
    /\ Recs[2].score = 800
    /\ Recs[2].confidence = "very_good"

\* C18: the quality rating is an integer from 1 to 5, the integer nearest to
\* 5 * score + 1 (the even one of two equally near) capped at 5.
C18_RatingIsRoundedAndCapped ==
    \A i \in 1..Len(Recs) :
        LET x == 5 * scoring.nums[i] + scoring.den
            d == scoring.den
            r == Recs[i].quality_rating
        IN  /\ r \in 1..5
            /\ r < 5 => /\ 2 * Abs(r * d - x) <= d
                        /\ 2 * Abs(r * d - x) = d => r % 2 = 0
            /\ r = 5 => 2 * x >= 9 * d

\* a recommendation with score 0.35, 5 * 0.35 + 1 = 2.75, rated 3
C18_Witness ==
    /\ Len(Recs) = 2
    /\ 20 * scoring.nums[2] = 7 * scoring.den
    /\ Recs[2].quality_rating = 3

\* C19: model_confidence is the arithmetic mean of the scores of the returned
\* recommendations, and 0 when there is none.
C19_ConfidenceIsMeanScore ==
    Answered =>
        LET mc == response.model_confidence
        IN  /\ Recs = <<>> => mc.num = 0
            /\ Recs # <<>> => mc.num * 1000 * Len(Recs) = SumScores(Recs) * mc.den

C19_Witness ==
    /\ Answered
    /\ Len(Recs) = 5
    /\ Recs[1].score # Recs[5].score
    /\ response.model_confidence.num = SumScores(Recs)
    /\ response.model_confidence.den = 5000

\* C20: the candidates are visited by descending score, candidates with equal
\* scores in catalog order, and the returned list is in descending score order.
C20_VisitedByScoreThenCatalogOrder ==
    (Answered /\ scoring.path # "none") =>
        LET order == TopIndices(scoring.nums, argsort_ties)
        IN  /\ \A p, q \in 1..Len(order) :
                  p < q => \/ scoring.nums[order[p]] > scoring.nums[order[q]]
                           \/ /\ scoring.nums[order[p]] = scoring.nums[order[q]]
                              /\ order[p] < order[q]
            /\ \A i, j \in 1..Len(Recs) : i < j => Recs[i].score >= Recs[j].score

\* the keys of the candidates accepted so far in the loop
AcceptedKeys == {ComboKey(walk.results[i]) : i \in 1..Len(walk.results)}

\* the seen set after the step of log entry i
SeenAfter(i) == IF i < Len(walk.log) THEN walk.log[i + 1].seen ELSE walk.seen

\* C21 as stated: at every step of the loop the seen set holds exactly the
\* keys of the candidates accepted so far.
C21_SeenIsAcceptedKeys ==
    walk.pc # "none" => walk.seen = AcceptedKeys

\* C21 as amended: at every step the seen set holds exactly the keys of the
\* candidates that passed the diversity check, those skipped for the quality
\* floor included; it contains the keys of the accepted candidates, and a
\* candidate skipped for diversity leaves it as it is.
C21_SeenIsKeysPastDiversityCheck ==
    walk.pc # "none" =>
        /\ walk.seen = {ComboKey(configs[walk.log[i].idx]) :
                           i \in {j \in 1..Len(walk.log) : walk.log[j].outcome # "diversity"}}
        /\ AcceptedKeys \subseteq walk.seen
        /\ \A i \in 1..Len(walk.log) :
              /\ walk.log[i].outcome = "diversity" => SeenAfter(i) = walk.log[i].seen
              /\ walk.log[i].outcome = "quality" =>
                    SeenAfter(i) = walk.log[i].seen \cup {ComboKey(configs[walk.log[i].idx])}

\* a candidate skipped for the quality floor whose key is in the seen set
\* though no accepted candidate has it
C21_Witness ==
    /\ walk.pc = "loop"
    /\ Len(walk.log) > 0
    /\ walk.log[Len(walk.log)].outcome = "quality"
    /\ ComboKey(configs[walk.log[Len(walk.log)].idx]) \in walk.seen \ AcceptedKeys

\* C22: a visited candidate is skipped for diversity exactly when at least 2
\* of the seen keys agree with its key on at least 2 of the 3 fields; with 0
\* or 1 such keys and a score at or above the threshold it is accepted.
C22_SkippedIffTwoSimilarSeen ==
    \A i \in 1..Len(walk.log) :
        LET e == walk.log[i]
            key == ComboKey(configs[e.idx])
            similar == {k \in e.seen :
                           Cardinality({f \in 1..3 : k[f] = key[f]}) >= 2}
        IN  /\ e.outcome = "diversity" <=> Cardinality(similar) >= 2
            /\ (Cardinality(similar) <= 1 /\ 20 * scoring.nums[e.idx] >= 3 * scoring.den)
                  => e.outcome = "accepted"

\* a candidate skipped for diversity with a score above the threshold, and an
\* accepted one that met one similar seen key
C22_Witness ==
    /\ \E i \in 1..Len(walk.log) :
          /\ walk.log[i].outcome = "diversity"
          /\ 20 * scoring.nums[walk.log[i].idx] >= 3 * scoring.den
    /\ \E i \in 1..Len(walk.log) :
          /\ walk.log[i].outcome = "accepted"
          /\ \E k \in walk.log[i].seen :
                SharedFields(k, ComboKey(configs[walk.log[i].idx])) = 2

\* C24: never more than 5 results, in the loop and in the response, and no
\* candidate is visited once 5 are accepted.
C24_AtMostFiveThenStop ==
    /\ Len(walk.results) <= 5
    /\ Len(Recs) <= 5
    /\ Len(walk.results) = 5 => walk.log[Len(walk.log)].outcome = "accepted"

\* five results returned and a candidate above the threshold never visited
C24_Witness ==
    /\ walk.pc = "done"
    /\ Len(Recs) = 5
    /\ walk.order # <<>>
    /\ 20 * scoring.nums[Head(walk.order)] >= 3 * scoring.den

\* C23: every candidate accepted in the loop has a score of at least 0.15,
\* the results are the accepted candidates, and every returned recommendation
\* reports a score of at least 0.15, on the scored and on the random path.
C23_EmittedScoreAtLeastThreshold ==
    /\ \A i \in 1..Len(walk.log) :
          walk.log[i].outcome = "accepted" =>
              20 * scoring.nums[walk.log[i].idx] >= 3 * scoring.den
    /\ Len(walk.results) =
          Cardinality({i \in 1..Len(walk.log) : walk.log[i].outcome = "accepted"})
    /\ \A i \in 1..Len(walk.results) : walk.results[i].score >= 150
    /\ \A i \in 1..Len(Recs) : Recs[i].score >= 150

\* a response with a recommendation at exactly 0.15 from the random path and
\* a candidate at 0.1 left out
C23_Witness ==
    /\ walk.pc = "done"
    /\ scoring.path = "except"
    /\ \E i \in 1..Len(Recs) : Recs[i].score = 150
    /\ \E i \in 1..Len(walk.log) :
          /\ walk.log[i].outcome = "quality"
          /\ 10 * scoring.nums[walk.log[i].idx] = scoring.den

\* the selector that adds a key to the seen set only when it accepts
RECURSIVE SelectLoopAddOnAccept(_, _, _, _, _, _)
SelectLoopAddOnAccept(order, cfg, sc, jours, results, seen) ==
    IF order = <<>> \/ Len(results) >= 5 THEN results
    ELSE LET idx == Head(order)
             key == ComboKey(cfg[idx])
         IN  IF Cardinality({k \in seen : SharedFields(key, k) >= 2}) >= 2
             THEN SelectLoopAddOnAccept(Tail(order), cfg, sc, jours, results, seen)
             ELSE IF 20 * sc.nums[idx] < 3 * sc.den
             THEN SelectLoopAddOnAccept(Tail(order), cfg, sc, jours, results, seen)
             ELSE SelectLoopAddOnAccept(Tail(order), cfg, sc, jours,
                     Append(results, MakeResult(cfg[idx], sc.nums[idx], sc.den, jours)),
                     seen \cup {key})

\* C29: the selector as coded, which adds the key before the quality check,
\* returns the same ordered list as the selector that adds it on acceptance.
C29_SameListAsAddOnAccept ==
    (Answered /\ scoring.path # "none") =>
        Recs = SelectLoopAddOnAccept(TopIndices(scoring.nums, argsort_ties), configs,
                                     scoring, request.jours, <<>>, {})

\* a response with recommendations where a candidate below the threshold has
\* a key that agrees with a returned one on 2 fields
C29_Witness ==
    /\ Answered
    /\ scoring.path = "scored"
    /\ Len(Recs) >= 2
    /\ \E i \in 1..Len(configs) :
          /\ 20 * scoring.nums[i] < 3 * scoring.den
          /\ \E j \in 1..Len(Recs) : SharedFields(ComboKey(configs[i]), ComboKey(Recs[j])) = 2

\* C28: in every result of get_recommendations, success is true exactly when
\* the recommendations list is non-empty, so every failure result (short
\* query, uninitialized model, internal exception, no match) has an empty list.
C28_SuccessIffNonEmpty ==
    Answered => /\ response.success <=> (Recs # <<>>)
                /\ ~response.success => Recs = <<>>

\* a scored call in which nothing was accepted answers with a failure and an
\* empty list
C28_Witness ==
    /\ Answered
    /\ response.full
    /\ response.message = "No close matches found"
    /\ ~response.success
    /\ Recs = <<>>

\* the call computed features and boosts (line 476 was reached)
Boosted == Answered /\ scoring.path = "scored" /\ boosting # NoBoosting

\* number of fields of the row that equal a feature that is set
MatchingFields(row, extracted) ==
    Cardinality({f \in {"type", "budget", "lieu"} :
                    extracted[f] # None /\ row[f] = extracted[f]})

\* C25: the boost of every catalog entry is 1 + (0.3 + 0.1 * specificity) * m,
\* m the number of fields among type, budget, lieu whose feature is set and
\* equals the entry's field; it is at least 1 and unset features add nothing.
\* In tenths: 10 + (3 + specificity) * m.
C25_BoostIsOnePlusStrengthTimesMatches ==
    Boosted =>
        \A i \in 1..Len(configs) :
            /\ boosting.boosts[i] =
                   10 + (3 + boosting.extracted.specificity_score)
                        * MatchingFields(configs[i], boosting.extracted)
            /\ boosting.boosts[i] >= 10

\* specificity 4 and an entry matching all three features: boost 1 + 0.7 * 3,
\* next to an entry matching none of them
C25_Witness ==
    /\ Boosted
    /\ boosting.extracted.specificity_score = 4
    /\ \E i \in 1..Len(configs) : boosting.boosts[i] = 31
    /\ \E i \in 1..Len(configs) : boosting.boosts[i] = 10

\* the words _extract_enhanced_features splits the raw query into (line 382)
ReportedWords == WordSet(EnhancedPreprocessText(request.query.toks, nlp))

\* the reported type is one of the catalog's types found among the words
TypeByExactMatch ==
    response.extracted_features.type \in (TypeValues(configs) \cap ReportedWords)

\* the raw query holds a type of the catalog, a place and a budget word
NamesTypeLieuBudget ==
    LET raw == WordSet(request.query.toks)
    IN  /\ raw \cap TypeValues(configs) # {}
        /\ \E w \in raw : LieuOfWord(w) # None
        /\ \E w \in raw : Canon(w) \in {"low", "medium", "high"}

\* C26: the specificity score of _extract_enhanced_features is (1 if budget is
\* set) + (1 if lieu is set) + (2 if type was set by an exact token match, 1 if
\* by a fallback rule, 0 if unset), an integer in 0..4, and a query that names
\* a known project type, a location and a budget gets exactly 4.
C26_SpecificityIsSumAndFourWhenAllNamed ==
    (Answered /\ response.full) =>
        LET f == response.extracted_features
        IN  /\ f.specificity_score =
                   (IF f.budget # None THEN 1 ELSE 0)
                   + (IF f.lieu # None THEN 1 ELSE 0)
                   + (IF f.type = None THEN 0 ELSE IF TypeByExactMatch THEN 2 ELSE 1)
            /\ f.specificity_score \in 0..4
            /\ NamesTypeLieuBudget => f.specificity_score = 4

\* the first budget one of whose patterns is a word of the normalized query
BudgetByToken ==
    FirstIn(BudgetOrder,
            {b \in {"low", "medium", "high"} : BudgetPatternWords(b) \cap ReportedWords # {}})

\* C27: the extracted budget is the first of low, medium, high one of whose
\* patterns matches a token of the normalized query, and it adds 1 to the
\* specificity; when no token matches a pattern the budget stays unset and
\* the specificity is not incremented.
C27_BudgetIsFirstGroupWithTokenMatch ==
    (Answered /\ response.full) =>
        LET f == response.extracted_features
        IN  /\ f.budget = BudgetByToken
            /\ f.specificity_score =
                   (IF BudgetByToken # None THEN 1 ELSE 0)
                   + (IF f.lieu # None THEN 1 ELSE 0)
                   + (IF f.type = None THEN 0 ELSE IF TypeByExactMatch THEN 2 ELSE 1)

\* C30: the features used for boosting, extracted from the normalized query,
\* equal the extracted_features of the response, extracted from the raw query.
C30_BoostingFeaturesAreReportedFeatures ==
    Boosted => boosting.extracted = response.extracted_features

====
